---- MODULE Spec2Model ----
(***************************************************************************)
(* Verification model of the StockCompSystem equity back end:              *)
(*   backend/equity/models.py       vesting calculator                     *)
(*   backend/equity/serializers.py  request validation                     *)
(*   backend/equity/views.py        request handlers                       *)
(*                                                                         *)
(* Four specifications share the module:                                    *)
(*   Spec       the stored data of one company under a sequence of         *)
(*              stock-class and grant requests;                            *)
(*   SpecRace   concurrent grant-creation requests against one class;      *)
(*   SpecVest   one stored grant read while the clock advances;            *)
(*   SpecSched  the vesting schedule of one stored grant.                  *)
(***************************************************************************)
EXTENDS Integers, Sequences, FiniteSets, Bags, TLC

\* ------------------------------------------------------------------------
\* Values
\* ------------------------------------------------------------------------

\* Python None for a nullable field; a date is <<y, m, d>> and a price <<p>>
None == <<>>

Max(a, b) == IF a >= b THEN a ELSE b

Min(a, b) == IF a <= b THEN a ELSE b

\* ------------------------------------------------------------------------
\* datetime.date and dateutil.relativedelta
\* A date is <<year, month, day>>.
\* ------------------------------------------------------------------------

IsLeap(y) == (y % 4 = 0) /\ ((y % 100 # 0) \/ (y % 400 = 0))

DaysInMonth(y, m) ==
    IF m = 2 THEN (IF IsLeap(y) THEN 29 ELSE 28)
    ELSE IF m \in {4, 6, 9, 11} THEN 30 ELSE 31

DaysBeforeMonthTable == <<0, 31, 59, 90, 120, 151, 181, 212, 243, 273, 304, 334>>

DaysBeforeMonth(y, m) ==
    DaysBeforeMonthTable[m] + (IF m > 2 /\ IsLeap(y) THEN 1 ELSE 0)

DaysBeforeYear(y) ==
    LET p == y - 1 IN p * 365 + (p \div 4) - (p \div 100) + (p \div 400)

\* date.toordinal()
Ord(d) == DaysBeforeYear(d[1]) + DaysBeforeMonth(d[1], d[2]) + d[3]

RECURSIVE YearOfOrdinal(_, _)
YearOfOrdinal(n, y) ==
    IF n > DaysBeforeYear(y + 1) THEN YearOfOrdinal(n, y + 1)
    ELSE IF n <= DaysBeforeYear(y) THEN YearOfOrdinal(n, y - 1)
    ELSE y

RECURSIVE MonthOfYearDay(_, _, _)
MonthOfYearDay(y, k, m) ==
    IF m < 12 /\ k > DaysBeforeMonth(y, m + 1) THEN MonthOfYearDay(y, k, m + 1)
    ELSE m

\* date.fromordinal(n)
FromOrd(n) ==
    LET y == YearOfOrdinal(n, n \div 365)
        k == n - DaysBeforeYear(y)
        m == MonthOfYearDay(y, k, 1)
    IN  <<y, m, k - DaysBeforeMonth(y, m)>>

DateLT(a, b) == Ord(a) < Ord(b)

DateLE(a, b) == Ord(a) <= Ord(b)

DateMin(a, b) == IF DateLT(b, a) THEN b ELSE a

\* (a - b).days
DaysDiff(a, b) == Ord(a) - Ord(b)

\* d + timedelta(days=n)
AddDays(d, n) == FromOrd(Ord(d) + n)

\* d + relativedelta(months=+k), k >= 0: the day is clipped to the month's end
AddMonths(d, k) ==
    LET t == (d[2] - 1) + k
        y == d[1] + (t \div 12)
        m == (t % 12) + 1
    IN  <<y, m, Min(d[3], DaysInMonth(y, m))>>

RECURSIVE RelDeltaAdjust(_, _, _)
RelDeltaAdjust(dt1, dt2, months) ==
    IF DateLT(dt1, AddMonths(dt2, months))
    THEN RelDeltaAdjust(dt1, dt2, months - 1)
    ELSE months

\* relativedelta(dt1, dt2) for dt1 >= dt2, as years * 12 + months
RelDeltaMonths(dt1, dt2) ==
    RelDeltaAdjust(dt1, dt2, (dt1[1] - dt2[1]) * 12 + (dt1[2] - dt2[2]))

\* relativedelta(dt1, dt2).years for dt1 >= dt2
RelDeltaYears(dt1, dt2) == RelDeltaMonths(dt1, dt2) \div 12

\* ------------------------------------------------------------------------
\* Python float (IEEE-754 binary64, round to nearest, ties to even)
\* A positive float is [h, m, l, e]: the 53-bit significand
\* h * 2^36 + m * 2^18 + l with 2^16 <= h < 2^17 and m, l < 2^18,
\* and the value significand * 2^(e - 52).  Zero has h = 0.
\* ------------------------------------------------------------------------

Limb == 512 * 512

HighOne == 256 * 256

RECURSIVE Pow2(_)
Pow2(n) == IF n = 0 THEN 1 ELSE 2 * Pow2(n - 1)

FloatZero == [h |-> 0, m |-> 0, l |-> 0, e |-> 0]

\* the significand plus one unit in the last place
FloatUlpUp(x) ==
    IF x.l + 1 < Limb THEN [x EXCEPT !.l = x.l + 1]
    ELSE IF x.m + 1 < Limb THEN [x EXCEPT !.l = 0, !.m = x.m + 1]
    ELSE IF x.h + 1 < 2 * HighOne THEN [x EXCEPT !.l = 0, !.m = 0, !.h = x.h + 1]
    ELSE [h |-> HighOne, m |-> 0, l |-> 0, e |-> x.e + 1]

\* round to nearest even given the discarded part rem out of unit
FloatRound(x, rem, unit) ==
    IF 2 * rem > unit \/ (2 * rem = unit /\ x.l % 2 = 1) THEN FloatUlpUp(x) ELSE x

RECURSIVE ScaleUp(_, _, _)
\* least s with a * 2^s >= b
ScaleUp(a, b, s) == IF a * Pow2(s) >= b THEN s ELSE ScaleUp(a, b, s + 1)

RECURSIVE ScaleDown(_, _, _)
\* greatest s with b * 2^s <= a
ScaleDown(a, b, s) == IF b * Pow2(s + 1) <= a THEN ScaleDown(a, b, s + 1) ELSE s

\* float(n) / float(t) for integers 0 <= n < 2^15, 0 < t < 2^14: long
\* division yielding 17 quotient bits, then four groups of 9 bits
FloatDiv(n, t) ==
    IF n = 0 THEN FloatZero
    ELSE
      LET up == IF n < t THEN ScaleUp(n, t, 0) ELSE 0
          dn == IF n < t THEN 0 ELSE ScaleDown(n, t, 0)
          a  == n * Pow2(up)
          b  == t * Pow2(dn)
          q0 == (a * HighOne) \div b
          r0 == (a * HighOne) % b
          q1 == (r0 * 512) \div b
          r1 == (r0 * 512) % b
          q2 == (r1 * 512) \div b
          r2 == (r1 * 512) % b
          q3 == (r2 * 512) \div b
          r3 == (r2 * 512) % b
          q4 == (r3 * 512) \div b
          r4 == (r3 * 512) % b
      IN  FloatRound([h |-> q0, m |-> q1 * 512 + q2, l |-> q3 * 512 + q4,
                      e |-> dn - up], r4, b)

RECURSIVE BitLen(_)
BitLen(n) == IF n = 0 THEN 0 ELSE 1 + BitLen(n \div 2)

\* float(k) * x for an integer k >= 0
FloatMulInt(k, x) ==
    IF k = 0 \/ x.h = 0 THEN FloatZero
    ELSE
      LET pl == x.l * k
          pm == x.m * k + (pl \div Limb)
          ph == x.h * k + (pm \div Limb)
          lo == pl % Limb
          mi == pm % Limb
          sh == BitLen(ph) - 17
          u  == Pow2(sh)
          v  == Limb \div u
      IN  FloatRound([h |-> ph \div u,
                      m |-> (mi \div u) + (ph % u) * v,
                      l |-> (lo \div u) + (mi % u) * v,
                      e |-> x.e + sh],
                     lo % u, u)

\* int(x): truncation toward zero, for 0 <= x < 2^17
FloatTrunc(x) ==
    IF x.h = 0 \/ x.e < 0 THEN 0 ELSE x.h \div Pow2(16 - x.e)

\* ------------------------------------------------------------------------
\* EquityGrant (equity/models.py)
\* ------------------------------------------------------------------------

VESTING_FREQUENCIES == {"DAILY", "WEEKLY", "BIWEEKLY", "MONTHLY", "YEARLY"}

Buckets == {"iso", "nqo", "rsu", "common", "preferred"}

\* a request body / model instance with one bucket set to n
GrantOf(kind, n, cls, strike, purch, vs, ve, freq) ==
    [user              |-> "E1",
     stock_class       |-> cls,
     num_shares        |-> n,
     iso_shares        |-> IF kind = "iso" THEN n ELSE 0,
     nqo_shares        |-> IF kind = "nqo" THEN n ELSE 0,
     rsu_shares        |-> IF kind = "rsu" THEN n ELSE 0,
     common_shares     |-> IF kind = "common" THEN n ELSE 0,
     preferred_shares  |-> IF kind = "preferred" THEN n ELSE 0,
     strike_price      |-> strike,
     purchase_price    |-> purch,
     grant_date        |-> None,
     vesting_start     |-> vs,
     vesting_end       |-> ve,
     vesting_frequency |-> freq,
     cliff_months      |-> 0]

SaveCliffKeep(g, now) == g

\* EquityGrant.save: cliff_months is recomputed from the clock, then the
\* row is written
SaveCliff(g, now) ==
    IF g.vesting_start # None
    THEN [g EXCEPT !.cliff_months =
            IF DateLT(g.vesting_start, now)
            THEN RelDeltaMonths(now, g.vesting_start)
            ELSE 0]
    ELSE g

\* EquityGrant.clean: raises when ISO and NQO are combined
CleanFails(g) == g.iso_shares > 0 /\ g.nqo_shares > 0

\* EquityGrant._units_between
UnitsBetween(start, end, freq) ==
    IF DateLT(end, start) THEN 0
    ELSE LET days == DaysDiff(end, start) IN
         IF freq = "DAILY" THEN days + 1
         ELSE IF freq = "WEEKLY" THEN (days \div 7) + 1
         ELSE IF freq = "BIWEEKLY" THEN (days \div 14) + 1
         ELSE IF freq = "YEARLY" THEN RelDeltaYears(end, start) + 1
         ELSE RelDeltaMonths(end, start) + 1

\* total_units in vested_shares
TotalUnits(g) == UnitsBetween(g.vesting_start, g.vesting_end, g.vesting_frequency)

ElapsedUnitsRemaining(g, on_date) ==
    UnitsBetween(DateMin(on_date, g.vesting_end), g.vesting_end, g.vesting_frequency)

\* elapsed_units in vested_shares, eval_date = min(today, vesting_end)
ElapsedUnits(g, on_date) ==
    UnitsBetween(g.vesting_start, DateMin(on_date, g.vesting_end), g.vesting_frequency)

\* EquityGrant.vested_shares(on_date)
VestedSharesNoPref(g, on_date) ==
    IF g.vesting_start = None \/ g.vesting_end = None \/ g.num_shares = 0 THEN 0
    ELSE IF DateLT(on_date, g.vesting_start) THEN 0
    ELSE IF TotalUnits(g) <= 0 THEN 0
    ELSE Min(FloatTrunc(FloatMulInt(ElapsedUnits(g, on_date),
                                    FloatDiv(g.num_shares, TotalUnits(g)))),
             g.num_shares)

VestedSharesClampStart(g, on_date) ==
    IF g.preferred_shares > 0 THEN g.preferred_shares
    ELSE IF g.vesting_start = None \/ g.vesting_end = None \/ g.num_shares = 0 THEN 0
    ELSE IF TotalUnits(g) <= 0 THEN 0
    ELSE LET clamped == IF DateLT(on_date, g.vesting_start) THEN g.vesting_start
                        ELSE on_date
         IN  Min(FloatTrunc(FloatMulInt(ElapsedUnits(g, clamped),
                                        FloatDiv(g.num_shares, TotalUnits(g)))),
                 g.num_shares)

VestedShares(g, on_date) ==
    IF g.preferred_shares > 0 THEN g.preferred_shares
    ELSE IF g.vesting_start = None \/ g.vesting_end = None \/ g.num_shares = 0 THEN 0
    ELSE IF DateLT(on_date, g.vesting_start) THEN 0
    ELSE IF TotalUnits(g) <= 0 THEN 0
    ELSE Min(FloatTrunc(FloatMulInt(ElapsedUnits(g, on_date),
                                    FloatDiv(g.num_shares, TotalUnits(g)))),
             g.num_shares)

GetVestingStatusUnvested(g, on_date) ==
    IF g.preferred_shares > 0 THEN "Preferred Shares (Immediate Vest)"
    ELSE LET vested == g.num_shares - VestedShares(g, on_date) IN
         IF vested = 0 THEN "Not Vested"
         ELSE IF vested >= g.num_shares THEN "Fully Vested"
         ELSE "Vesting"

\* EquityGrant.get_vesting_status(on_date)
GetVestingStatus(g, on_date) ==
    IF g.preferred_shares > 0 THEN "Preferred Shares (Immediate Vest)"
    ELSE LET vested == VestedShares(g, on_date) IN
         IF vested = 0 THEN "Not Vested"
         ELSE IF vested >= g.num_shares THEN "Fully Vested"
         ELSE "Vesting"

DetailVestingStatusNeverFull(g, on_date) ==
    IF g.preferred_shares > 0 THEN "Preferred Shares (Immediate Vest)"
    ELSE IF VestedShares(g, on_date) <= 0 THEN "Not Vested"
    ELSE "Partially Vested"

\* EmployeeGrantDetailSerializer.get_vesting_status
DetailVestingStatus(g, on_date) ==
    IF g.preferred_shares > 0 THEN "Preferred Shares (Immediate Vest)"
    ELSE LET vested == VestedShares(g, on_date) IN
         IF vested <= 0 THEN "Not Vested"
         ELSE IF vested >= g.num_shares /\ g.num_shares > 0 THEN "Fully Vested"
         ELSE "Partially Vested"

\* alloc_for_period(total, i, n) in vesting_schedule_breakdown
AllocForPeriodNaive(total, i, n) == total \div n

AllocForPeriod(total, i, n) ==
    FloatTrunc(FloatDiv(total * i, n)) - FloatTrunc(FloatDiv(total * (i - 1), n))

\* one entry of the schedule
VestEntry(d, iso, nqo, rsu, common, pref) ==
    [date |-> d, iso |-> iso, nqo |-> nqo, rsu |-> rsu, common |-> common,
     preferred |-> pref, total_vested |-> iso + nqo + rsu + common + pref]

\* the unit count chosen by vesting_schedule_breakdown for start < end
ScheduleUnits(start, end, freq) ==
    LET days_total == DaysDiff(end, start) IN
    IF days_total < 31 \/ freq = "DAILY" THEN Max(days_total, 1)
    ELSE IF freq = "WEEKLY" THEN Max(days_total \div 7, 1)
    ELSE IF freq = "BIWEEKLY" THEN Max(days_total \div 14, 1)
    ELSE IF freq = "YEARLY" THEN Max(RelDeltaYears(end, start), 1)
    ELSE Max(RelDeltaMonths(end, start), 1)

\* start + step * i, capped at end
ScheduleDate(start, end, freq, i) ==
    LET days_total == DaysDiff(end, start)
        d == IF days_total < 31 \/ freq = "DAILY" THEN AddDays(start, i)
             ELSE IF freq = "WEEKLY" THEN AddDays(start, 7 * i)
             ELSE IF freq = "BIWEEKLY" THEN AddDays(start, 14 * i)
             ELSE IF freq = "YEARLY" THEN AddMonths(start, 12 * i)
             ELSE AddMonths(start, i)
    IN  IF DateLT(end, d) THEN end ELSE d

\* EquityGrant.vesting_schedule_breakdown
VestingScheduleBreakdown(g) ==
    IF g.preferred_shares > 0
    THEN << VestEntry(IF g.grant_date # None THEN g.grant_date
                      ELSE IF g.vesting_start # None THEN g.vesting_start
                      ELSE g.vesting_end,
                      0, 0, 0, 0, g.preferred_shares) >>
    ELSE IF g.vesting_start = None \/ g.vesting_end = None THEN << >>
    ELSE
      LET start == AddMonths(g.vesting_start, g.cliff_months)
          end   == g.vesting_end
      IN  IF DateLE(end, start)
          THEN << VestEntry(end, g.iso_shares, g.nqo_shares, g.rsu_shares,
                            g.common_shares, 0) >>
          ELSE
            LET units == ScheduleUnits(start, end, g.vesting_frequency) IN
            [i \in 1..units |->
                VestEntry(ScheduleDate(start, end, g.vesting_frequency, i),
                          AllocForPeriod(g.iso_shares, i, units),
                          AllocForPeriod(g.nqo_shares, i, units),
                          AllocForPeriod(g.rsu_shares, i, units),
                          AllocForPeriod(g.common_shares, i, units),
                          0)]

\* ------------------------------------------------------------------------
\* State
\* ------------------------------------------------------------------------

VARIABLES
    today,       \* timezone.now().date()
    authorized,  \* Company.total_authorized_shares
    market,      \* Company.current_share_price, risk_free_rate, volatility
    invites,     \* EmployeeInvite rows: the token is the position
    users,       \* auth User rows: the usernames
    profiles,    \* UserProfile rows
    series,      \* Series rows of the company: id -> share_type
    classes,     \* StockClass rows of the company
    grants,      \* EquityGrant rows, in insertion order
    req,         \* per worker: the request between its read and its write
    resp         \* the last response sent

vars == <<today, authorized, market, invites, users, profiles, series, classes, grants, req, resp>>

\* Company market parameters.  Prices are whole currency units,
\* risk_free_rate is in 1/10000 and volatility in 1/100 (the decimal places
\* of the fields); a new Company has the field defaults.
Market(price, rate, vol) ==
    [current_share_price |-> price, risk_free_rate |-> rate, volatility |-> vol]

DefaultMarket == Market(0, 0, 0)

\* UserProfile row
Profile(username, unique_id, role, company, employer) ==
    [username |-> username, unique_id |-> unique_id, role |-> role,
     company |-> company, employer |-> employer]

\* the accounts a company starts with: its employer, no invite
Users0 == {"M1"}

Profiles0 == {Profile("M1", "M1", "employer", "A", "")}

\* ------------------------------------------------------------------------
\* Responses
\* ------------------------------------------------------------------------

Response(op, status, error, target, remaining, requested) ==
    [op |-> op, status |-> status, error |-> error, target |-> target,
     remaining |-> remaining, requested |-> requested,
     vested_shares |-> 0, vesting_status |-> "", rows |-> << >>,
     schedule |-> << >>, body |-> None]

NoResponse == Response("none", 0, "", "", 0, 0)

Ok(op, status) == Response(op, status, "", "", 0, 0)

Rejected(op, error) == Response(op, 400, error, "", 0, 0)

\* ------------------------------------------------------------------------
\* StockClass (equity/models.py, equity/serializers.py)
\* ------------------------------------------------------------------------

RECURSIVE SumSeq(_)
SumSeq(q) == IF q = << >> THEN 0 ELSE Head(q) + SumSeq(Tail(q))

RECURSIVE SumTotals(_)
\* Sum("total_class_shares") over a set of StockClass rows
SumTotals(cs) ==
    IF cs = {} THEN 0
    ELSE LET c == CHOOSE x \in cs : TRUE
         IN  c.total_class_shares + SumTotals(cs \ {c})

ClassNamed(cs, name) == CHOOSE c \in cs : c.name = name

HasClass(cs, name) == \E c \in cs : c.name = name

\* StockClass.shares_allocated: Sum("num_shares") over the class's grants
SharesAllocated(gs, name) ==
    SumSeq([i \in 1..Len(gs) |->
              IF gs[i].stock_class = name THEN gs[i].num_shares ELSE 0])

\* StockClassSerializer.validate: the error, or "" when the attrs pass.
\* others is the company's classes without the instance being updated.
StockClassCapError(others, new_shares, cap) ==
    IF cap # 0 /\ SumTotals(others) + new_shares > cap
    THEN "exceeds_authorized" ELSE ""

\* the headroom reported by StockClassSerializer.validate
StockClassHeadroom(others, cap) == Max(0, cap - SumTotals(others))

\* ------------------------------------------------------------------------
\* EquityGrantSerializer.validate (equity/serializers.py)
\* ------------------------------------------------------------------------

\* Python truthiness of a nullable Decimal
Truthy(price) == price # None /\ price[1] # 0

Positive(price) == price # None /\ price[1] > 0

\* "not x or x <= 0"
NotPositive(price) == ~Truthy(price) \/ price[1] <= 0

NonZeroBuckets(d) ==
    Cardinality({b \in Buckets :
        (CASE b = "iso" -> d.iso_shares
           [] b = "nqo" -> d.nqo_shares
           [] b = "rsu" -> d.rsu_shares
           [] b = "common" -> d.common_shares
           [] OTHER -> d.preferred_shares) > 0})

BucketSum(d) ==
    d.iso_shares + d.nqo_shares + d.rsu_shares + d.common_shares + d.preferred_shares

BucketErrorNoSum(d) ==
    IF d.iso_shares # 0 /\ d.nqo_shares # 0 THEN "iso_nqo_exclusive"
    ELSE IF NonZeroBuckets(d) # 1 THEN "one_bucket" ELSE ""

\* exclusivity and bucket-sum rules
BucketError(d) ==
    IF d.iso_shares # 0 /\ d.nqo_shares # 0 THEN "iso_nqo_exclusive"
    ELSE IF NonZeroBuckets(d) # 1 \/ BucketSum(d) # d.num_shares THEN "one_bucket"
    ELSE ""

\* pricing rules
PricingError(d) ==
    LET strike == d.strike_price
        purch  == d.purchase_price
    IN  IF (d.iso_shares # 0 \/ d.nqo_shares # 0) /\ NotPositive(strike)
            THEN "strike_required"
        ELSE IF (d.iso_shares # 0 \/ d.nqo_shares # 0) /\ Positive(purch)
            THEN "purchase_forbidden"
        ELSE IF d.rsu_shares # 0 /\ Positive(strike) THEN "strike_forbidden"
        ELSE IF d.rsu_shares # 0 /\ Positive(purch) THEN "purchase_forbidden"
        ELSE IF d.common_shares # 0 /\ NotPositive(purch) THEN "purchase_required"
        ELSE IF d.common_shares # 0 /\ Positive(strike) THEN "strike_forbidden"
        ELSE IF d.preferred_shares # 0 /\ NotPositive(purch) THEN "purchase_required"
        ELSE IF d.preferred_shares # 0 /\ Positive(strike) THEN "strike_forbidden"
        ELSE ""

\* class/series consistency
ShareTypeError(d, sc) ==
    IF d.preferred_shares # 0 /\ sc.share_type # "PREFERRED" THEN "class_not_preferred"
    ELSE IF (d.iso_shares # 0 \/ d.nqo_shares # 0 \/ d.rsu_shares # 0
             \/ d.common_shares # 0) /\ sc.share_type # "COMMON"
        THEN "class_not_common"
    ELSE ""

\* vesting_end before vesting_start
WindowError(d) ==
    IF d.vesting_start # None /\ d.vesting_end # None
       /\ DateLT(d.vesting_end, d.vesting_start)
    THEN "end_before_start" ELSE ""

\* stock-class allocation cap
CapacityError(d, sc, gs) ==
    IF SharesAllocated(gs, sc.name) + d.num_shares > sc.total_class_shares
    THEN "insufficient_shares" ELSE ""

FirstError(errs) ==
    IF \A i \in 1..Len(errs) : errs[i] = "" THEN ""
    ELSE errs[CHOOSE i \in 1..Len(errs) :
                errs[i] # "" /\ \A j \in 1..(i - 1) : errs[j] = ""]

\* The response of a failed validation, or Ok when the data passes.
\* The stock_class slug is resolved among the company's classes first.
GrantValidate(d, cs, gs) ==
    IF ~HasClass(cs, d.stock_class) THEN Rejected("grant_create", "class_not_found")
    ELSE
      LET sc  == ClassNamed(cs, d.stock_class)
          err == FirstError(<< BucketError(d), PricingError(d), ShareTypeError(d, sc),
                               WindowError(d), CapacityError(d, sc, gs) >>)
      IN  IF err = "" THEN Ok("grant_create", 201)
          ELSE IF err = "insufficient_shares"
          THEN Response("grant_create", 400, err, sc.name,
                        Max(0, sc.total_class_shares - SharesAllocated(gs, sc.name)),
                        d.num_shares)
          ELSE Rejected("grant_create", err)

\* serializer.save(): EquityGrant.save computes cliff_months, runs clean()
\* and inserts; grant_date defaults to the clock
GrantRow(d, now) ==
    SaveCliff([d EXCEPT !.grant_date = IF d.grant_date = None THEN now ELSE @], now)

\* ------------------------------------------------------------------------
\* bs_call_price (equity/serializers.py)
\* ------------------------------------------------------------------------
\* S and K are whole currency units, T is in days (T_years = days / 365),
\* r in 1/10000 and sigma in 1/100.  A result is <<"num", v>> where the value
\* is known exactly, a term naming the expression that produces it where it
\* involves exp, log or erf, or the name of the exception raised.

Num(v) == <<"num", v>>

BsErrors == {"ZeroDivisionError", "ValueError"}

\* S - K * math.exp(-r * T), floored at 0.0
BsDiscounted(S, K, T, r) ==
    IF r = 0 \/ T = 0 THEN Num(Max(0, S - K)) ELSE <<"discounted", S, K, T, r>>

\* d1, d2 and the final price, in evaluation order: math.log(S / K),
\* math.sqrt(T), the division by sigma * sqrt(T)
BsClosedForm(S, K, T, r, sigma) ==
    IF K = 0 THEN <<"ZeroDivisionError", "S / K">>
    ELSE IF S = 0 \/ ((S > 0) # (K > 0)) THEN <<"ValueError", "math.log">>
    ELSE IF T < 0 THEN <<"ValueError", "math.sqrt">>
    ELSE IF sigma = 0 \/ T = 0 THEN <<"ZeroDivisionError", "sigma * sqrt(T)">>
    ELSE <<"closed_form", S, K, T, r, sigma>>

BsCallPriceNoTGuard(S, K, T, r, sigma) ==
    IF S <= 0 THEN Num(0)
    ELSE IF K <= 0 THEN Num(S)
    ELSE IF sigma <= 0 THEN BsDiscounted(S, K, T, r)
    ELSE BsClosedForm(S, K, T, r, sigma)

BsCallPrice(S, K, T, r, sigma) ==
    IF S <= 0 THEN Num(0)
    ELSE IF K <= 0 THEN Num(S)
    ELSE IF T <= 0 THEN Num(Max(0, S - K))
    ELSE IF sigma <= 0 THEN BsDiscounted(S, K, T, r)
    ELSE BsClosedForm(S, K, T, r, sigma)

\* ------------------------------------------------------------------------
\* Monthly expenses (equity/views.py)
\* ------------------------------------------------------------------------
\* An amount of money is kept exactly: cash is the part whose value is a
\* whole number of currency units (for these every float product, sum and
\* round(x, 2) is exact), and terms counts the multiples of each unit value
\* that is not known numerically (a Black-Scholes closed-form value, a
\* quotient).

Money(cash, terms) == [cash |-> cash, terms |-> terms]

ZeroMoney == Money(0, EmptyBag)

MoneyAdd(a, b) == Money(a.cash + b.cash, a.terms (+) b.terms)

\* n * value for a share count n and a per-share value
Times(n, value) ==
    IF n = 0 THEN ZeroMoney
    ELSE IF value[1] = "num" THEN Money(n * value[2], EmptyBag)
    ELSE Money(0, [t \in {value} |-> n])

\* total_value / months
MoneyDiv(total, months) == Money(0, SetToBag({<<"quotient", total, months>>}))

IsZeroMoney(a) == a = ZeroMoney

RECURSIVE SumMoneyRange(_, _, _)
\* the sum of the amounts q[lo..hi]
SumMoneyRange(q, lo, hi) ==
    IF hi < lo THEN ZeroMoney
    ELSE IF lo = hi THEN q[lo]
    ELSE LET mid == (lo + hi) \div 2
         IN  MoneyAdd(SumMoneyRange(q, lo, mid), SumMoneyRange(q, mid + 1, hi))

SumMoney(q) == SumMoneyRange(q, 1, Len(q))

\* UserProfile.role of the holders known to the company
UserRole(u) == IF u \in {"M1", "M2"} THEN "employer" ELSE "employee"

\* UserProfile.company; the stock classes, series and market of the state
\* are the rows of company HomeCompany
CompanyOf(u) == IF u \in {"M2", "X1"} THEN "B" ELSE "A"

HomeCompany == "A"

\* float(x or 0.0) of a nullable Decimal
PriceOf(p) == IF p = None THEN 0 ELSE p[1]

\* GrantMonthlyExpensesView._first_of_month
FirstOfMonth(d) == <<d[1], d[2], 1>>

\* GrantMonthlyExpensesView._month_iter
MonthIter(start, end) ==
    LET n == (end[1] - start[1]) * 12 + (end[2] - start[2]) + 1 IN
    [i \in 1..Max(n, 0) |-> AddMonths(FirstOfMonth(start), i - 1)]

\* GrantMonthlyExpensesView._months_between
MonthsBetween(start, end) == RelDeltaMonths(end, start)

\* the Black-Scholes value per option used for the expense
OptionValue(g, mk, now) ==
    LET iso_nqo == g.iso_shares + g.nqo_shares
        strike  == PriceOf(g.strike_price)
    IN  IF iso_nqo > 0 /\ mk.current_share_price > 0 /\ strike > 0
           /\ mk.volatility > 0
        THEN LET vest_end == IF g.vesting_end # None THEN g.vesting_end ELSE now
                 days     == Max(DaysDiff(vest_end, now), 0)
                 v        == BsCallPrice(mk.current_share_price, strike, days,
                                         mk.risk_free_rate, mk.volatility)
             IN  IF v[1] \in BsErrors THEN Num(0) ELSE v
        ELSE Num(0)

RsuPrice(mk) == IF mk.current_share_price > 0 THEN mk.current_share_price ELSE 0

\* share_price - purchase_price, purchase_price defaulting to share_price
StockDiff(g, mk) ==
    mk.current_share_price -
        (IF g.purchase_price # None THEN g.purchase_price[1]
         ELSE mk.current_share_price)

\* the expense of one schedule entry
PeriodAmount(p, g, mk, now) ==
    MoneyAdd(MoneyAdd(Times(p.iso + p.nqo, OptionValue(g, mk, now)),
                      Times(p.rsu, Num(RsuPrice(mk)))),
             Times(p.common + p.preferred, Num(StockDiff(g, mk))))

Posting(month, amount) == [month |-> month, amount |-> amount]

\* schedule path: one posting per schedule entry not before start_month
SchedulePostings(g, mk, now, start_month) ==
    LET sched == VestingScheduleBreakdown(g)
        all   == [i \in 1..Len(sched) |->
                    Posting(FirstOfMonth(sched[i].date),
                            PeriodAmount(sched[i], g, mk, now))]
    IN  SelectSeq(all, LAMBDA p : DateLE(start_month, p.month))

\* fallback path: total_value without a schedule
FallbackTotal(g, mk, now) ==
    MoneyAdd(MoneyAdd(Times(g.iso_shares + g.nqo_shares, OptionValue(g, mk, now)),
                      Times(g.rsu_shares, Num(RsuPrice(mk)))),
             MoneyAdd(Times(g.common_shares, Num(StockDiff(g, mk))),
                      Times(g.preferred_shares, Num(StockDiff(g, mk)))))

FallbackLastMonth(g) ==
    IF g.preferred_shares # 0 /\ ~(g.vesting_start # None /\ g.vesting_end # None)
    THEN FirstOfMonth(g.grant_date)
    ELSE IF g.vesting_end # None THEN FirstOfMonth(g.vesting_end)
    ELSE FirstOfMonth(g.grant_date)

AtGrantDateAlways(g, total, start_month) ==
    << Posting(FirstOfMonth(g.grant_date), total) >>

AtGrantDate(g, total, start_month) ==
    IF DateLE(start_month, FirstOfMonth(g.grant_date))
    THEN << Posting(FirstOfMonth(g.grant_date), total) >>
    ELSE << >>

FallbackPostings(g, mk, now, start_month) ==
    LET total     == FallbackTotal(g, mk, now)
        iso_nqo   == g.iso_shares + g.nqo_shares
        no_window == ~(g.vesting_start # None /\ g.vesting_end # None)
    IN  IF IsZeroMoney(total) THEN << >>
        ELSE IF (g.preferred_shares > 0 /\ no_window)
                \/ (g.rsu_shares + g.preferred_shares > 0 /\ no_window /\ iso_nqo = 0)
        THEN AtGrantDate(g, total, start_month)
        ELSE IF ~no_window /\ DateLT(g.vesting_start, g.vesting_end)
        THEN LET months    == MonthsBetween(g.vesting_start, g.vesting_end) + 1
                 per_month == IF months > 0 THEN MoneyDiv(total, months) ELSE total
                 ms        == MonthIter(FirstOfMonth(g.vesting_start), g.vesting_end)
                 all       == [i \in 1..Len(ms) |-> Posting(ms[i], per_month)]
             IN  SelectSeq(all, LAMBDA p : DateLE(start_month, p.month)
                                           /\ DateLE(p.month, FallbackLastMonth(g)))
        ELSE AtGrantDate(g, total, start_month)

\* the postings of one grant and the last month of its series
GrantPostings(g, mk, now, start_month) ==
    IF VestingScheduleBreakdown(g) # << >>
    THEN SchedulePostings(g, mk, now, start_month)
    ELSE FallbackPostings(g, mk, now, start_month)

GrantLastMonth(g) ==
    LET sched == VestingScheduleBreakdown(g) IN
    IF sched # << >>
    THEN FirstOfMonth(sched[CHOOSE i \in 1..Len(sched) :
                        \A j \in 1..Len(sched) : DateLE(sched[j].date, sched[i].date)].date)
    ELSE FallbackLastMonth(g)

\* monthly[m]
MonthlyOf(postings, m) ==
    SumMoney([i \in 1..Len(SelectSeq(postings, LAMBDA p : p.month = m)) |->
                SelectSeq(postings, LAMBDA p : p.month = m)[i].amount])

\* the response body built from the postings and the reporting window
ExpenseBody(postings, first, last) ==
    LET ms  == MonthIter(first, last)
        out == [i \in 1..Len(ms) |->
                  [month |-> ms[i], expense |-> MonthlyOf(postings, ms[i])]]
    IN  [start_month |-> first,
         end_month |-> last,
         total_expense_fair_value |->
             SumMoney([i \in 1..Len(postings) |-> postings[i].amount]),
         months |-> out,
         grand_total_within_window |->
             SumMoney([i \in 1..Len(out) |-> out[i].expense])]

\* GrantMonthlyExpensesView.get
GrantMonthlyExpenses(g, mk, now) ==
    ExpenseBody(GrantPostings(g, mk, now, FirstOfMonth(now)),
                FirstOfMonth(now), GrantLastMonth(g))

RECURSIVE ConcatPostings(_, _, _, _)
ConcatPostings(gs, mk, now, start_month) ==
    IF gs = << >> THEN << >>
    ELSE GrantPostings(Head(gs), mk, now, start_month)
         \o ConcatPostings(Tail(gs), mk, now, start_month)

RECURSIVE LatestLastMonth(_, _)
LatestLastMonth(gs, start_month) ==
    IF gs = << >> THEN start_month
    ELSE LET rest == LatestLastMonth(Tail(gs), start_month)
             mine == GrantLastMonth(Head(gs))
         IN  IF DateLT(rest, mine) THEN mine ELSE rest

\* CompanyMonthlyExpensesView.get: the grants held by employees
CompanyMonthlyExpenses(gs, mk, now) ==
    LET held == SelectSeq(gs, LAMBDA g : UserRole(g.user) = "employee") IN
    ExpenseBody(ConcatPostings(held, mk, now, FirstOfMonth(now)),
                FirstOfMonth(now), LatestLastMonth(held, FirstOfMonth(now)))

\* ------------------------------------------------------------------------
\* EmployeeGrantDetailSerializer.get_vested_value (equity/serializers.py)
\* ------------------------------------------------------------------------

\* (Decimal(bucket) * frac).to_integral_value(ROUND_HALF_UP) with
\* frac = vested_total / total; the quotient is taken exactly, which agrees
\* with the 28-digit Decimal context whenever bucket is 0 or equal to total
RoundHalfUp(num, den) == (2 * num + den) \div (2 * den)

VestedValueAllStrike(g, mk, now) ==
    LET total        == g.num_shares
        vested_total == VestedShares(g, now)
        v(b)         == RoundHalfUp(b * vested_total, total)
    IN  IF total <= 0 \/ vested_total <= 0 THEN 0
        ELSE (v(g.iso_shares) + v(g.nqo_shares) + v(g.rsu_shares)
              + v(g.common_shares) + v(g.preferred_shares)) * PriceOf(g.strike_price)

\* vested shares of each bucket at the bucket's price; prices are whole
\* currency units, so quantize(0.01) and float() are exact
VestedValue(g, mk, now) ==
    LET total        == g.num_shares
        vested_total == VestedShares(g, now)
        strike       == PriceOf(g.strike_price)
        purchase     == PriceOf(g.purchase_price)
        fmv          == mk.current_share_price
        v(b)         == RoundHalfUp(b * vested_total, total)
    IN  IF total <= 0 \/ vested_total <= 0 THEN 0
        ELSE (v(g.iso_shares) + v(g.nqo_shares)) * strike
             + v(g.rsu_shares) * fmv
             + (v(g.common_shares) + v(g.preferred_shares)) * purchase

\* ------------------------------------------------------------------------
\* Bounds and request inputs
\* ------------------------------------------------------------------------

\* stored grants per company in Spec
MaxGrants == 1

\* concurrent request workers and stored grants in SpecRace
NumWorkers == 2

MaxRaceGrants == 3

\* stored grants in SpecScope
MaxScopeGrants == 1

\* invites the employer sends in SpecInvite and SpecInviteRace
MaxInvites == 2

\* days the clock runs in SpecVest, from ClockStart
ClockDays == 369

\* clock ticks of SchedStep days in SpecSched
SchedTicks == 4

SchedStep == 31

ClockStart == <<2023, 12, 30>>

Workers == 1..NumWorkers

Idle == [w \in Workers |-> << >>]

\* a share_type field left out of the request body
Absent == "<absent>"

\* Series.share_type choices (SHARE_TYPE_CHOICES)
SHARE_TYPES == {"COMMON", "PREFERRED"}

ClassNames == {"A", "B"}

ClassTotals == {150, 1000}

AuthorizedVals == {0, 1150}

SeriesIds == {1, 2, 3}

MaxSeries == 2

ShareTypeInputs == SHARE_TYPES \cup {"BOGUS", Absent}

Series0 == <<"COMMON", "PREFERRED">>

Req(cls, n, iso, nqo, rsu, common, pref, strike, purch, vs, ve) ==
    [user              |-> "E1",
     stock_class       |-> cls,
     num_shares        |-> n,
     iso_shares        |-> iso,
     nqo_shares        |-> nqo,
     rsu_shares        |-> rsu,
     common_shares     |-> common,
     preferred_shares  |-> pref,
     strike_price      |-> strike,
     purchase_price    |-> purch,
     grant_date        |-> None,
     vesting_start     |-> vs,
     vesting_end       |-> ve,
     vesting_frequency |-> "MONTHLY",
     cliff_months      |-> 0]

\* the price fields a bucket type requires
StrikeFor(kind) == IF kind \in {"iso", "nqo"} THEN <<10>> ELSE None

PurchaseFor(kind) == IF kind \in {"common", "preferred"} THEN <<10>> ELSE None

\* well-formed requests: one bucket, matching total, required prices
WellFormedInputs ==
    { GrantOf(k, 150, c, StrikeFor(k), PurchaseFor(k), None, None, "MONTHLY") :
        k \in Buckets, c \in ClassNames }
    \cup
    { GrantOf(k, 900, c, StrikeFor(k), PurchaseFor(k), None, None, "MONTHLY") :
        k \in {"rsu", "preferred"}, c \in ClassNames }

\* requests that break the bucket, pricing or window rules, or name no class
MalformedInputs ==
    { Req("A", n, 150, 150, 0, 0, 0, <<10>>, None, None, None) : n \in {150, 300} }
    \cup { Req("A", n, 0, 0, 150, 150, 0, None, <<10>>, None, None) : n \in {150, 300} }
    \cup { Req("A", n, 0, 0, 0, 0, 0, None, None, None, None) : n \in {0, 150} }
    \cup { Req("A", n, 0, 0, 150, 0, 0, None, None, None, None) : n \in {0, 300} }
    \cup { Req("B", n, 150, 0, 0, 0, 150, <<10>>, <<10>>, None, None) : n \in {150, 300} }
    \cup { Req("A", 150, 150, 0, 0, 0, 0, st, pu, None, None) :
             st \in {None, <<10>>}, pu \in {<<10>>} }
    \cup { Req("A", 150, 0, 0, 150, 0, 0, <<10>>, None, None, None),
           Req("A", 150, 0, 0, 0, 150, 0, None, None, None, None),
           Req("A", 150, 0, 0, 150, 0, 0, None, None, <<2024, 4, 1>>, <<2024, 1, 1>>),
           Req("Z", 150, 0, 0, 150, 0, 0, None, None, None, None) }

\* requests carrying a non-positive value in the price field their bucket
\* type must not have
ForbiddenPriceInputs ==
    { Req("A", 150, 150, 0, 0, 0, 0, <<10>>, <<0>>, None, None),
      Req("A", 150, 0, 0, 150, 0, 0, <<-5>>, None, None, None) }

GrantInputs == WellFormedInputs \cup MalformedInputs \cup ForbiddenPriceInputs

RaceInputs ==
    { GrantOf(k, n, "A", StrikeFor(k), PurchaseFor(k), None, None, "MONTHLY") :
        k \in {"iso", "rsu"}, n \in {150, 900} }

\* ------------------------------------------------------------------------
\* Request handlers (equity/views.py)
\* ------------------------------------------------------------------------

\* POST classes/  (StockClassListCreateView.create)
StockClassCreate(name, sid, total) ==
    /\ IF sid \notin DOMAIN series
       THEN /\ resp' = Rejected("class_create", "series_not_found")
            /\ UNCHANGED classes
       ELSE IF StockClassCapError(classes, total, authorized) # ""
       THEN /\ resp' = Response("class_create", 400, "exceeds_authorized", name,
                                StockClassHeadroom(classes, authorized), total)
            /\ UNCHANGED classes
       ELSE IF HasClass(classes, name)
       THEN /\ resp' = Rejected("class_create", "duplicate_name")
            /\ UNCHANGED classes
       ELSE /\ classes' = classes \cup
                  {[name |-> name, series |-> sid, share_type |-> series[sid],
                    total_class_shares |-> total]}
            /\ resp' = Ok("class_create", 201)
    /\ UNCHANGED <<today, authorized, market, invites, users, profiles, series, grants, req>>

\* PUT classes/<pk>/  (StockClassDetailView.update)
StockClassUpdate(name, sid, total) ==
    /\ IF ~HasClass(classes, name)
       THEN /\ resp' = Response("class_update", 404, "not_found", name, 0, 0)
            /\ UNCHANGED classes
       ELSE LET inst   == ClassNamed(classes, name)
                others == classes \ {inst}
            IN  IF sid \notin DOMAIN series
                THEN /\ resp' = Rejected("class_update", "series_not_found")
                     /\ UNCHANGED classes
                ELSE IF StockClassCapError(others, total, authorized) # ""
                THEN /\ resp' = Response("class_update", 400, "exceeds_authorized",
                                         name, StockClassHeadroom(others, authorized),
                                         total)
                     /\ UNCHANGED classes
                ELSE /\ classes' = others \cup
                           {[name |-> name, series |-> sid,
                             share_type |-> series[sid],
                             total_class_shares |-> total]}
                     /\ resp' = Ok("class_update", 200)
    /\ UNCHANGED <<today, authorized, market, invites, users, profiles, series, grants, req>>

\* DELETE classes/<pk>/  (StockClassDetailView.destroy); grants cascade
StockClassDelete(name) ==
    /\ IF ~HasClass(classes, name)
       THEN /\ resp' = Response("class_delete", 404, "not_found", name, 0, 0)
            /\ UNCHANGED <<classes, grants>>
       ELSE /\ classes' = classes \ {ClassNamed(classes, name)}
            /\ grants' = SelectSeq(grants, LAMBDA g : g.stock_class # name)
            /\ resp' = Ok("class_delete", 204)
    /\ UNCHANGED <<today, authorized, market, invites, users, profiles, series, req>>

\* POST series/  (SeriesListCreateView.create); share_type defaults to
\* COMMON; the request's name is one the company has not used yet
SeriesCreate(st) ==
    /\ Len(series) < MaxSeries
    /\ IF st # Absent /\ st \notin SHARE_TYPES
       THEN /\ resp' = Rejected("series_create", "invalid_choice")
            /\ UNCHANGED series
       ELSE /\ series' = Append(series, IF st = Absent THEN "COMMON" ELSE st)
            /\ resp' = Ok("series_create", 201)
    /\ UNCHANGED <<today, authorized, market, invites, users, profiles, classes, grants, req>>

\* PUT/PATCH series/<pk>/  (SeriesDetailView.update): ModelSerializer.update
\* writes the Series row only; the classes attached to it are not saved
SeriesUpdate(sid, st) ==
    /\ IF sid \notin DOMAIN series
       THEN /\ resp' = Response("series_update", 404, "not_found", "", 0, 0)
            /\ UNCHANGED series
       ELSE IF st # Absent /\ st \notin SHARE_TYPES
       THEN /\ resp' = Rejected("series_update", "invalid_choice")
            /\ UNCHANGED series
       ELSE /\ series' = IF st = Absent THEN series
                         ELSE [series EXCEPT ![sid] = st]
            /\ resp' = Ok("series_update", 200)
    /\ UNCHANGED <<today, authorized, market, invites, users, profiles, classes, grants, req>>

\* POST grants/  (EquityGrantListCreateView.create) without interference:
\* is_valid() and save() against the same rows
GrantCreate(d) ==
    LET v == GrantValidate(d, classes, grants) IN
    /\ v.status = 201 => Len(grants) < MaxGrants
    /\ IF v.status # 201
       THEN resp' = v /\ UNCHANGED grants
       ELSE IF CleanFails(d)
       THEN resp' = Rejected("grant_create", "iso_nqo_exclusive") /\ UNCHANGED grants
       ELSE /\ grants' = Append(grants, GrantRow(d, today))
            /\ resp' = v
    /\ UNCHANGED <<today, authorized, market, invites, users, profiles, series, classes, req>>

\* DELETE employees/<unique_id>/grants/<grant_id>/  (EmployeeGrantDetailView)
GrantDelete(i) ==
    /\ IF i \notin 1..Len(grants)
       THEN /\ resp' = Response("grant_delete", 404, "not_found", "", 0, 0)
            /\ UNCHANGED grants
       ELSE /\ grants' = [j \in 1..(Len(grants) - 1) |->
                            IF j < i THEN grants[j] ELSE grants[j + 1]]
            /\ resp' = Ok("grant_delete", 204)
    /\ UNCHANGED <<today, authorized, market, invites, users, profiles, series, classes, req>>

\* DELETE employees/<unique_id>/grants/  (EmployeeGrantDeleteView.delete)
GrantDeleteAll(u) ==
    /\ grants' = SelectSeq(grants, LAMBDA g : g.user # u)
    /\ resp' = Ok("grants_delete", 200)
    /\ UNCHANGED <<today, authorized, market, invites, users, profiles, series, classes, req>>

\* POST grants/ under concurrency, first half: ser.is_valid()
BeginGrantCreate(w, d) ==
    /\ req[w] = << >>
    /\ Len(grants) + Cardinality({x \in Workers : req[x] # << >>}) < MaxRaceGrants
    /\ LET v == GrantValidate(d, classes, grants) IN
       IF v.status # 201
       THEN resp' = v /\ UNCHANGED req
       ELSE req' = [req EXCEPT ![w] = <<d>>] /\ UNCHANGED resp
    /\ UNCHANGED <<today, authorized, market, invites, users, profiles, series, classes, grants>>

\* POST grants/ under concurrency, second half: ser.save()
FinishGrantCreate(w) ==
    /\ req[w] # << >>
    /\ LET d == req[w][1] IN
       IF CleanFails(d)
       THEN resp' = Rejected("grant_create", "iso_nqo_exclusive") /\ UNCHANGED grants
       ELSE /\ grants' = Append(grants, GrantRow(d, today))
            /\ resp' = Ok("grant_create", 201)
    /\ req' = [req EXCEPT ![w] = << >>]
    /\ UNCHANGED <<today, authorized, market, invites, users, profiles, series, classes>>

\* the clock advances by step days, at most limit days past ClockStart;
\* the last response has been delivered
Tick(step, limit) ==
    /\ DaysDiff(today, ClockStart) + step <= limit
    /\ today' = AddDays(today, step)
    /\ resp' = NoResponse
    /\ UNCHANGED <<authorized, market, invites, users, profiles, series, classes, grants, req>>

\* GET employees/<unique_id>/grants/<grant_id>/  (EmployeeGrantDetailView)
GetGrantDetail(i) ==
    /\ i \in 1..Len(grants)
    /\ resp' = [Ok("grant_detail", 200) EXCEPT
                  !.vested_shares = VestedShares(grants[i], today),
                  !.vesting_status = DetailVestingStatus(grants[i], today),
                  !.body = [grant_id |-> i,
                            vested_value |-> VestedValue(grants[i], market, today)]]
    /\ UNCHANGED <<today, authorized, market, invites, users, profiles, series, classes, grants, req>>

\* GET cap-table/  (CapTableView.get)
GetCapTable ==
    /\ resp' = [Ok("cap_table", 200) EXCEPT
                  !.rows = [i \in 1..Len(grants) |->
                              [total_shares |-> grants[i].num_shares,
                               cliff_months |-> grants[i].cliff_months,
                               vesting_status |-> GetVestingStatus(grants[i], today)]]]
    /\ UNCHANGED <<today, authorized, market, invites, users, profiles, series, classes, grants, req>>

\* GET employees/<unique_id>/grants/<grant_id>/schedule/  (GrantVestingScheduleView)
GetSchedule(i) ==
    /\ i \in 1..Len(grants)
    /\ resp' = [Ok("schedule", 200) EXCEPT
                  !.schedule = VestingScheduleBreakdown(grants[i])]
    /\ UNCHANGED <<today, authorized, market, invites, users, profiles, series, classes, grants, req>>

\* PUT employees/<unique_id>/grants/<grant_id>/  (EmployeeGrantDetailView):
\* every serializer field is read-only, so only EquityGrant.save() acts
SaveGrant(i) ==
    /\ i \in 1..Len(grants)
    /\ grants' = [grants EXCEPT ![i] = SaveCliff(@, today)]
    /\ resp' = Ok("grant_update", 200)
    /\ UNCHANGED <<today, authorized, market, invites, users, profiles, series, classes, req>>

\* a 404 from get_object_or_404 / a queryset that does not hold the row
NotFound(op) == Response(op, 404, "not_found", "", 0, 0)

\* company.stock_classes of the caller's company
ClassesOf(caller) == IF CompanyOf(caller) = HomeCompany THEN classes ELSE {}

\* EquityGrant.objects.filter(user__company=company, user__unique_id=u, pk=i)
GrantInScope(caller, u, i) ==
    /\ i \in 1..Len(grants)
    /\ grants[i].user = u
    /\ CompanyOf(u) = CompanyOf(caller)

\* POST grants/ by caller: stock_class resolves among the caller's company's
\* classes, user among UserProfile.objects.all()
GrantCreateBy(caller, d) ==
    LET v == GrantValidate(d, ClassesOf(caller), grants) IN
    /\ v.status = 201 => Len(grants) < MaxScopeGrants
    /\ IF v.status # 201
       THEN resp' = v /\ UNCHANGED grants
       ELSE IF CleanFails(d)
       THEN resp' = Rejected("grant_create", "iso_nqo_exclusive") /\ UNCHANGED grants
       ELSE /\ grants' = Append(grants, GrantRow(d, today))
            /\ resp' = v
    /\ UNCHANGED <<today, authorized, market, invites, users, profiles, series, classes, req>>

\* DELETE employees/<unique_id>/grants/<grant_id>/ by caller
GrantDeleteBy(caller, u, i) ==
    /\ IF ~GrantInScope(caller, u, i)
       THEN resp' = NotFound("grant_delete") /\ UNCHANGED grants
       ELSE /\ grants' = [j \in 1..(Len(grants) - 1) |->
                            IF j < i THEN grants[j] ELSE grants[j + 1]]
            /\ resp' = Ok("grant_delete", 204)
    /\ UNCHANGED <<today, authorized, market, invites, users, profiles, series, classes, req>>

\* DELETE employees/<unique_id>/grants/ by caller: the profile is looked up
\* in the caller's company
GrantDeleteAllBy(caller, u) ==
    /\ IF CompanyOf(u) # CompanyOf(caller)
       THEN resp' = NotFound("grants_delete") /\ UNCHANGED grants
       ELSE /\ grants' = SelectSeq(grants, LAMBDA g : g.user # u)
            /\ resp' = Ok("grants_delete", 200)
    /\ UNCHANGED <<today, authorized, market, invites, users, profiles, series, classes, req>>

\* GET employees/<unique_id>/grants/<grant_id>/schedule/ by caller
GetScheduleBy(caller, u, i) ==
    /\ IF ~GrantInScope(caller, u, i)
       THEN resp' = NotFound("schedule")
       ELSE resp' = [Ok("schedule", 200) EXCEPT
                       !.schedule = VestingScheduleBreakdown(grants[i])]
    /\ UNCHANGED <<today, authorized, market, invites, users, profiles, series, classes, grants, req>>

\* POST classes/ by caller: series_id resolves among the caller's series
StockClassCreateBy(caller, name, sid, total) ==
    IF CompanyOf(caller) = HomeCompany
    THEN StockClassCreate(name, sid, total)
    ELSE /\ resp' = Rejected("class_create", "series_not_found")
         /\ UNCHANGED <<today, authorized, market, invites, users, profiles, series, classes, grants, req>>

\* PUT classes/<pk>/ by caller: the class is looked up in the caller's company
StockClassUpdateBy(caller, name, sid, total) ==
    IF CompanyOf(caller) = HomeCompany
    THEN StockClassUpdate(name, sid, total)
    ELSE /\ resp' = NotFound("class_update")
         /\ UNCHANGED <<today, authorized, market, invites, users, profiles, series, classes, grants, req>>

\* PUT series/<pk>/ by caller: the series is looked up in the caller's company
SeriesUpdateBy(caller, sid, st) ==
    IF CompanyOf(caller) = HomeCompany
    THEN SeriesUpdate(sid, st)
    ELSE /\ resp' = NotFound("series_update")
         /\ UNCHANGED <<today, authorized, market, invites, users, profiles, series, classes, grants, req>>

\* ------------------------------------------------------------------------
\* Employee invites and registration (accounts/views.py)
\* ------------------------------------------------------------------------

\* EmployeeInvite row; is_used defaults to False, expires_at to null
Invite(company, employer, is_used) ==
    [company |-> company, employer |-> employer, is_used |-> is_used]

\* a registration body; the password is given by its length
RegData(username, unique_id, password_len) ==
    [username |-> username, unique_id |-> unique_id, password_len |-> password_len]

InviteUsableAnyState(token) == token \in 1..Len(invites)

\* EmployeeInvite.objects.get(token=token, is_used=False) finds a row
InviteUsable(token) ==
    token \in 1..Len(invites) /\ ~invites[token].is_used

\* POST invite/employee/  (EmployeeInviteView.perform_create)
InviteCreate(caller) ==
    /\ Len(invites) < MaxInvites
    /\ invites' = Append(invites, Invite(CompanyOf(caller), caller, FALSE))
    /\ resp' = Ok("invite_create", 201)
    /\ UNCHANGED <<today, authorized, market, users, profiles, series, classes, grants, req>>

\* GET invite/validate/?token=  (EmployeeInviteValidateView.get)
InviteValidate(token) ==
    /\ resp' = IF InviteUsable(token) THEN Ok("invite_validate", 200)
               ELSE NotFound("invite_validate")
    /\ UNCHANGED <<today, authorized, market, invites, users, profiles, series, classes, grants, req>>

\* EmployeeRegistrationView.post after get_invite() returned the invite:
\* serializer validation, the username check, user.save(),
\* UserProfile.objects.create() under the (company, unique_id) constraint,
\* invite.save(); each write is committed as it is made
RegisterWith(token, data) ==
    LET inv == invites[token] IN
    IF data.password_len < 8
    THEN /\ resp' = Rejected("register", "invalid")
         /\ UNCHANGED <<invites, users, profiles>>
    ELSE IF data.username \in users
    THEN /\ resp' = Rejected("register", "username_taken")
         /\ UNCHANGED <<invites, users, profiles>>
    ELSE IF \E p \in profiles :
                p.company = inv.company /\ p.unique_id = data.unique_id
    THEN /\ users' = users \cup {data.username}
         /\ resp' = Response("register", 500, "integrity_error", "", 0, 0)
         /\ UNCHANGED <<invites, profiles>>
    ELSE /\ users' = users \cup {data.username}
         /\ profiles' = profiles \cup
                {Profile(data.username, data.unique_id, "employee",
                         inv.company, inv.employer)}
         /\ invites' = [invites EXCEPT ![token].is_used = TRUE]
         /\ resp' = [Ok("register", 201) EXCEPT
                       !.body = [username |-> data.username]]

\* POST register/employee/<token>/  (EmployeeRegistrationView.post)
Register(token, data) ==
    /\ IF ~InviteUsable(token)
       THEN /\ resp' = NotFound("register")
            /\ UNCHANGED <<invites, users, profiles>>
       ELSE RegisterWith(token, data)
    /\ UNCHANGED <<today, authorized, market, series, classes, grants, req>>

\* POST register/employee/<token>/ under concurrency, first half:
\* get_invite()
BeginRegister(w, token, data) ==
    /\ req[w] = << >>
    /\ IF ~InviteUsable(token)
       THEN resp' = NotFound("register") /\ UNCHANGED req
       ELSE /\ req' = [req EXCEPT ![w] = <<[token |-> token, data |-> data]>>]
            /\ UNCHANGED resp
    /\ UNCHANGED <<today, authorized, market, invites, users, profiles, series, classes, grants>>

\* POST register/employee/<token>/ under concurrency, second half: the rest
\* of post() with the invite object read before
FinishRegister(w) ==
    /\ req[w] # << >>
    /\ RegisterWith(req[w][1].token, req[w][1].data)
    /\ req' = [req EXCEPT ![w] = << >>]
    /\ UNCHANGED <<today, authorized, market, series, classes, grants>>

\* ------------------------------------------------------------------------
\* Spec: one company's stock classes and grants, one request at a time
\* ------------------------------------------------------------------------

Init ==
    /\ today = ClockStart
    /\ authorized \in AuthorizedVals
    /\ market = DefaultMarket
    /\ invites = << >>
    /\ users = Users0
    /\ profiles = Profiles0
    /\ series = Series0
    /\ classes = {}
    /\ grants = << >>
    /\ req = Idle
    /\ resp = NoResponse

Next ==
    \/ \E name \in ClassNames, sid \in SeriesIds, total \in ClassTotals :
          StockClassCreate(name, sid, total)
    \/ \E name \in ClassNames, sid \in SeriesIds, total \in ClassTotals :
          StockClassUpdate(name, sid, total)
    \/ \E name \in ClassNames : StockClassDelete(name)
    \/ \E d \in GrantInputs : GrantCreate(d)
    \/ \E i \in 1..MaxGrants : GrantDelete(i)
    \/ GrantDeleteAll("E1")

Spec == Init /\ [][Next]_vars

\* ------------------------------------------------------------------------
\* SpecRace: concurrent POST grants/ against class A of 1000 shares
\* ------------------------------------------------------------------------

RaceClass ==
    [name |-> "A", series |-> 1, share_type |-> "COMMON", total_class_shares |-> 1000]

InitRace ==
    /\ today = ClockStart
    /\ authorized = 1150
    /\ market = DefaultMarket
    /\ invites = << >>
    /\ users = Users0
    /\ profiles = Profiles0
    /\ series = Series0
    /\ classes = {RaceClass}
    /\ grants = << >>
    /\ req = Idle
    /\ resp = NoResponse

NextRace ==
    \/ \E w \in Workers, d \in RaceInputs : BeginGrantCreate(w, d)
    \/ \E w \in Workers : FinishGrantCreate(w)

SpecRace == InitRace /\ [][NextRace]_vars

\* ------------------------------------------------------------------------
\* SpecVest: one grant, created on ClockStart, read as the days pass
\* ------------------------------------------------------------------------

VestClasses ==
    { [name |-> "A", series |-> 1, share_type |-> "COMMON", total_class_shares |-> 1200],
      [name |-> "B", series |-> 2, share_type |-> "PREFERRED", total_class_shares |-> 1200] }

ClassFor(kind) == IF kind = "preferred" THEN "B" ELSE "A"

VestStarts == { <<2024, 1, 1>>, <<2024, 1, 31>> }

VestEnds == { <<2024, 1, 31>>, <<2024, 11, 1>>, <<2026, 1, 1>> }

VestGrants ==
    { GrantOf(k, n, ClassFor(k), StrikeFor(k), PurchaseFor(k), vs, ve, f) :
        k \in {"iso", "preferred"}, n \in {15, 1200},
        vs \in VestStarts, ve \in VestEnds, f \in VESTING_FREQUENCIES }
    \cup
    { GrantOf(k, n, ClassFor(k), StrikeFor(k), PurchaseFor(k), None, None, "MONTHLY") :
        k \in {"iso", "preferred"}, n \in {15, 1200} }

InitVest ==
    /\ today = ClockStart
    /\ authorized = 2400
    /\ market = DefaultMarket
    /\ invites = << >>
    /\ users = Users0
    /\ profiles = Profiles0
    /\ series = Series0
    /\ classes = VestClasses
    /\ \E g \in VestGrants :
          /\ GrantValidate(g, classes, << >>).status = 201
          /\ grants = << GrantRow(g, today) >>
    /\ req = Idle
    /\ resp = NoResponse

NextVest ==
    \/ Tick(1, ClockDays)
    \/ GetGrantDetail(1)
    \/ GetCapTable

SpecVest == InitVest /\ [][NextVest]_vars

\* ------------------------------------------------------------------------
\* SpecSched: one grant, created on ClockStart, re-saved and its schedule
\* read as the months pass
\* ------------------------------------------------------------------------

SchedEnds == { <<2024, 1, 31>>, <<2024, 4, 1>> }

SchedGrants ==
    { GrantOf(k, 100, ClassFor(k), StrikeFor(k), PurchaseFor(k), vs, ve, f) :
        k \in Buckets, vs \in VestStarts, ve \in SchedEnds, f \in VESTING_FREQUENCIES }
    \cup
    { GrantOf(k, 100, ClassFor(k), StrikeFor(k), PurchaseFor(k), None, None, "MONTHLY") :
        k \in Buckets }

InitSched ==
    /\ today = ClockStart
    /\ authorized = 2400
    /\ market = DefaultMarket
    /\ invites = << >>
    /\ users = Users0
    /\ profiles = Profiles0
    /\ series = Series0
    /\ classes = VestClasses
    /\ \E g \in SchedGrants :
          /\ GrantValidate(g, classes, << >>).status = 201
          /\ grants = << GrantRow(g, today) >>
    /\ req = Idle
    /\ resp = NoResponse

NextSched ==
    \/ Tick(SchedStep, SchedStep * SchedTicks)
    \/ SaveGrant(1)
    \/ GetSchedule(1)

SpecSched == InitSched /\ [][NextSched]_vars

\* ------------------------------------------------------------------------
\* Properties
\* ------------------------------------------------------------------------

HasWindow(g) == g.vesting_start # None /\ g.vesting_end # None

BucketShares(g, b) ==
    CASE b = "iso" -> g.iso_shares
      [] b = "nqo" -> g.nqo_shares
      [] b = "rsu" -> g.rsu_shares
      [] b = "common" -> g.common_shares
      [] OTHER -> g.preferred_shares

\* C1 (SpecRace): once every concurrent grant-creation request against a
\* stock class has completed, the num_shares of the class's stored grants sum
\* to at most total_class_shares.
C1_NoOvershoot ==
    (\A w \in Workers : req[w] = << >>) =>
        \A c \in classes : SharesAllocated(grants, c.name) <= c.total_class_shares

\* C2 (SpecVest): vested_shares never decreases as the as-of date advances.
C2_VestedMonotonic ==
    [][VestedShares(grants'[1], today') >= VestedShares(grants[1], today)]_vars

C2_Witness ==
    /\ resp.op = "grant_detail"
    /\ grants[1].preferred_shares = 0
    /\ resp.vested_shares > 0
    /\ resp.vested_shares < grants[1].num_shares

\* C3 (SpecVest): a grant with a vesting window and num_shares > 0 has
\* vested_shares equal to num_shares on every as-of date from vesting_end on.
C3_FullAtTerm ==
    LET g == grants[1] IN
    (HasWindow(g) /\ g.num_shares > 0 /\ DateLE(g.vesting_end, today)) =>
        VestedShares(g, today) = g.num_shares

\* C4 (SpecVest): a MONTHLY grant with cliff_months = 0 whose vesting_end is
\* m whole months after vesting_start has total_units = m and, on an as-of
\* date k whole months after vesting_start (0 <= k <= m), elapsed_units = k
\* and vested_shares = floor(num_shares * k / m).
C4_MonthlyUnits ==
    LET g == grants[1] IN
    ( /\ HasWindow(g)
      /\ g.preferred_shares = 0
      /\ g.vesting_frequency = "MONTHLY"
      /\ g.cliff_months = 0
      /\ DateLT(g.vesting_start, g.vesting_end)
      /\ g.vesting_end[3] = g.vesting_start[3]
      /\ today[3] = g.vesting_start[3]
      /\ DateLE(g.vesting_start, today)
      /\ DateLE(today, g.vesting_end) ) =>
        LET m == RelDeltaMonths(g.vesting_end, g.vesting_start)
            k == RelDeltaMonths(today, g.vesting_start)
        IN  /\ TotalUnits(g) = m
            /\ ElapsedUnits(g, today) = k
            /\ VestedShares(g, today) = (g.num_shares * k) \div m

\* C5 (SpecVest): a non-preferred grant with a vesting window has
\* vested_shares = 0 on every as-of date before vesting_start.
C5_ZeroBeforeStart ==
    LET g == grants[1] IN
    (HasWindow(g) /\ g.preferred_shares = 0 /\ DateLT(today, g.vesting_start)) =>
        VestedShares(g, today) = 0

C5_Witness ==
    /\ HasWindow(grants[1])
    /\ grants[1].preferred_shares = 0
    /\ DateLT(today, grants[1].vesting_start)
    /\ resp.op = "grant_detail"
    /\ resp.vested_shares = 0

\* C6 (SpecVest): a grant with preferred_shares > 0 has vested_shares equal
\* to preferred_shares on every as-of date, with or without vesting dates,
\* and its vesting status is "Preferred Shares (Immediate Vest)".
C6_PreferredImmediate ==
    LET g == grants[1] IN
    g.preferred_shares > 0 =>
        /\ VestedShares(g, today) = g.preferred_shares
        /\ GetVestingStatus(g, today) = "Preferred Shares (Immediate Vest)"
        /\ DetailVestingStatus(g, today) = "Preferred Shares (Immediate Vest)"
        /\ resp.op = "grant_detail" => resp.vested_shares = g.preferred_shares

C6_Witness ==
    /\ grants[1].preferred_shares > 0
    /\ HasWindow(grants[1])
    /\ DateLT(grants[1].vesting_start, today)
    /\ DateLT(today, grants[1].vesting_end)
    /\ resp.op = "grant_detail"
    /\ resp.vested_shares = grants[1].preferred_shares
    /\ resp.vesting_status = "Preferred Shares (Immediate Vest)"

\* C7 (SpecSched): in the schedule of a non-preferred grant with a vesting
\* window, each bucket's per-period shares sum to the bucket's total, and a
\* total of 100 over 3 periods is split 33, 33, 34.
C7_ScheduleSumsExact ==
    LET g == grants[1]
        sched == resp.schedule
    IN  (resp.op = "schedule" /\ HasWindow(g) /\ g.preferred_shares = 0) =>
          \A b \in Buckets \ {"preferred"} :
            /\ SumSeq([i \in 1..Len(sched) |-> sched[i][b]]) = BucketShares(g, b)
            /\ (Len(sched) = 3 /\ BucketShares(g, b) = 100) =>
                  [i \in 1..3 |-> sched[i][b]] = <<33, 33, 34>>

C7_Witness ==
    /\ resp.op = "schedule"
    /\ HasWindow(grants[1])
    /\ grants[1].rsu_shares = 100
    /\ Len(resp.schedule) = 3
    /\ resp.schedule[3].rsu = 34

\* C8 (Spec): a grant-creation request for more than T - A shares of a class
\* (T = total_class_shares, A = shares already allocated) is rejected, the
\* error reports remaining = T - A, nothing is stored; a request that is
\* rejected for capacity asks for more than T - A.
C8_CapacityCheck ==
    [][ (resp'.op = "grant_create" /\ <<resp', grants'>> # <<resp, grants>>) =>
          /\ resp'.error = "insufficient_shares" =>
                LET c == ClassNamed(classes, resp'.target)
                    headroom == c.total_class_shares - SharesAllocated(grants, c.name)
                IN  /\ resp'.remaining = headroom
                    /\ resp'.requested > headroom
                    /\ grants' = grants
                    /\ classes' = classes
          /\ resp'.status = 201 =>
                LET n == grants'[Len(grants')]
                    c == ClassNamed(classes, n.stock_class)
                IN  n.num_shares
                      <= c.total_class_shares - SharesAllocated(grants, c.name)
      ]_vars

\* C9 (Spec): the total_class_shares of the company's stock classes never
\* sum to more than total_authorized_shares, whatever its value.
C9_TotalsWithinAuthorized == SumTotals(classes) <= authorized

\* C10 (Spec): every stored grant has exactly one non-zero bucket and that
\* bucket equals num_shares; a rejected creation request changes nothing.
C10_OneBucket ==
    /\ [](\A i \in 1..Len(grants) :
            /\ NonZeroBuckets(grants[i]) = 1
            /\ BucketSum(grants[i]) = grants[i].num_shares
            /\ grants[i].num_shares > 0
            /\ ~(grants[i].iso_shares > 0 /\ grants[i].nqo_shares > 0))
    /\ [][(resp'.op = "grant_create" /\ resp'.status = 400) =>
             UNCHANGED <<authorized, series, classes, grants>>]_vars

C10_Witness ==
    /\ Len(grants) > 0
    /\ resp.op = "grant_create"
    /\ resp.status = 201
    /\ NonZeroBuckets(grants[Len(grants)]) = 1

\* ------------------------------------------------------------------------
\* C11 (Spec): every stored grant obeys the pricing-field rules: ISO/NQO have
\* a positive strike_price and no purchase_price, common/preferred have a
\* positive purchase_price and no strike_price, RSU has neither; a request
\* that breaks them is rejected and stores nothing.
C11_PricingRules ==
    \A i \in 1..Len(grants) :
        LET g == grants[i] IN
        /\ (g.iso_shares > 0 \/ g.nqo_shares > 0) =>
              Positive(g.strike_price) /\ g.purchase_price = None
        /\ (g.common_shares > 0 \/ g.preferred_shares > 0) =>
              Positive(g.purchase_price) /\ g.strike_price = None
        /\ g.rsu_shares > 0 => g.strike_price = None /\ g.purchase_price = None

\* ------------------------------------------------------------------------
\* SpecBs: bs_call_price applied to every combination of input signs
\* ------------------------------------------------------------------------

BsPrices == {-100, 0, 100, 250}

BsDays == {-365, 0, 365, 730}

BsRates == {-500, 0, 500}

BsVols == {-20, 0, 20}

BsInputs == [S : BsPrices, K : BsPrices, T : BsDays, r : BsRates, sigma : BsVols]

InitBs ==
    /\ today = ClockStart
    /\ authorized = 0
    /\ market = DefaultMarket
    /\ invites = << >>
    /\ users = Users0
    /\ profiles = Profiles0
    /\ series = Series0
    /\ classes = {}
    /\ grants = << >>
    /\ req \in BsInputs
    /\ resp = NoResponse

BsCall ==
    /\ resp' = [Ok("bs_call_price", 200) EXCEPT
                  !.body = BsCallPrice(req.S, req.K, req.T, req.r, req.sigma)]
    /\ UNCHANGED <<today, authorized, market, invites, users, profiles, series, classes, grants, req>>

NextBs == BsCall

SpecBs == InitBs /\ [][NextBs]_vars

\* ------------------------------------------------------------------------
\* C12 (SpecBs): bs_call_price decides degenerate inputs by the first
\* matching guard in the order S<=0 -> 0, K<=0 -> S, T<=0 -> max(0, S-K),
\* sigma<=0 -> max(0, S-K*e^(-rT)); the closed form is reached only when all
\* four are strictly positive and no input raises an error.
C12_GuardOrder ==
    resp.op = "bs_call_price" =>
        LET S == req.S  K == req.K  T == req.T  sigma == req.sigma
            v == resp.body
        IN  /\ v[1] \notin BsErrors
            /\ v[1] = "closed_form" => (S > 0 /\ K > 0 /\ T > 0 /\ sigma > 0)
            /\ S <= 0 => v = Num(0)
            /\ (S > 0 /\ K <= 0) => v = Num(S)
            /\ (S > 0 /\ K > 0 /\ T <= 0) => v = Num(Max(0, S - K))
            /\ (S > 0 /\ K > 0 /\ T > 0 /\ sigma <= 0) =>
                  v = (IF req.r = 0 THEN Num(Max(0, S - K))
                       ELSE <<"discounted", S, K, T, req.r>>)

C12_Witness ==
    /\ resp.op = "bs_call_price"
    /\ req.S = 100 /\ req.K = 0
    /\ resp.body = Num(100)

\* ------------------------------------------------------------------------
\* SpecExp: monthly expenses of a company with two grants as months pass
\* ------------------------------------------------------------------------

\* GET employees/<unique_id>/grants/<grant_id>/expenses/
\* (GrantMonthlyExpensesView.get)
GetGrantExpenses(i) ==
    /\ i \in 1..Len(grants)
    /\ resp' = [Ok("grant_expenses", 200) EXCEPT
                  !.body = [grant_id |-> i]
                           @@ GrantMonthlyExpenses(grants[i], market, today)]
    /\ UNCHANGED <<today, authorized, market, invites, users, profiles, series, classes, grants, req>>

\* GET company/monthly-expenses/  (CompanyMonthlyExpensesView.get)
GetCompanyExpenses ==
    /\ resp' = [Ok("company_expenses", 200) EXCEPT
                  !.body = CompanyMonthlyExpenses(grants, market, today)]
    /\ UNCHANGED <<today, authorized, market, invites, users, profiles, series, classes, grants, req>>

ExpMarkets == { Market(12, 500, 50), Market(12, 0, 0), DefaultMarket }

\* vesting_start, vesting_end and vesting_frequency of the grants
ExpShapes ==
    { <<None, None, "MONTHLY">>,
      <<None, <<2024, 4, 15>>, "MONTHLY">>,
      <<None, <<2023, 11, 15>>, "MONTHLY">>,
      << <<2024, 1, 15>>, None, "MONTHLY">>,
      << <<2024, 1, 15>>, <<2024, 4, 15>>, "MONTHLY">>,
      << <<2024, 1, 15>>, <<2024, 4, 15>>, "YEARLY">> }

ExpGrant(k, w) ==
    GrantOf(k, 100, ClassFor(k), StrikeFor(k), PurchaseFor(k), w[1], w[2], w[3])

\* the first grant: every bucket type and shape, held by an employee, RSU
\* grants held by the employer's own profile, and an RSU grant whose
\* grant_date is given in the request
ExpGrants ==
    { ExpGrant(k, w) : k \in Buckets, w \in ExpShapes }
    \cup { [ExpGrant("rsu", w) EXCEPT !.user = "M1"] : w \in ExpShapes }
    \cup { [ExpGrant("rsu", <<None, <<2024, 1, 15>>, "MONTHLY">>)
               EXCEPT !.grant_date = <<2024, 2, 10>>] }

\* the second grant of the company
ExpPeers ==
    { ExpGrant("rsu", <<None, None, "MONTHLY">>),
      [ExpGrant("rsu", <<None, None, "MONTHLY">>) EXCEPT !.user = "M1"],
      ExpGrant("preferred", <<None, None, "MONTHLY">>),
      ExpGrant("iso", << <<2024, 1, 15>>, <<2024, 4, 15>>, "MONTHLY">>) }

InitExp ==
    /\ today = ClockStart
    /\ authorized = 2400
    /\ market \in ExpMarkets
    /\ invites = << >>
    /\ users = Users0
    /\ profiles = Profiles0
    /\ series = Series0
    /\ classes = VestClasses
    /\ \E g1 \in ExpGrants, g2 \in ExpPeers :
          /\ GrantValidate(g1, classes, << >>).status = 201
          /\ GrantValidate(g2, classes, << GrantRow(g1, today) >>).status = 201
          /\ grants = << GrantRow(g1, today), GrantRow(g2, today) >>
    /\ req = Idle
    /\ resp = NoResponse

NextExp ==
    \/ Tick(SchedStep, SchedStep * SchedTicks)
    \/ \E i \in 1..2 : GetGrantExpenses(i)
    \/ \E i \in 1..2 : GetGrantDetail(i)
    \/ GetCompanyExpenses

SpecExp == InitExp /\ [][NextExp]_vars

\* the expense a monthly series reports for month m
ExpenseAt(body, m) ==
    IF \E k \in 1..Len(body.months) : body.months[k].month = m
    THEN body.months[CHOOSE k \in 1..Len(body.months) : body.months[k].month = m].expense
    ELSE ZeroMoney

\* ------------------------------------------------------------------------
\* C13 (SpecExp): the grand total of the company-wide monthly expense
\* aggregation equals the sum, over all of the company's grants, of each
\* grant's independently computed total fair value.
C13_CompanyTotalReconciles ==
    resp.op = "company_expenses" =>
        resp.body.total_expense_fair_value =
            SumMoney([i \in 1..Len(grants) |->
                GrantMonthlyExpenses(grants[i], market, today).total_expense_fair_value])

\* ------------------------------------------------------------------------
\* C14 (SpecExp): for every month of the reporting window the company-wide
\* expense equals the sum over every grant of the company, whatever the role
\* of its holder, of the expense the per-grant computation assigns to it.
C14_CompanyMonthIsSumOfGrants ==
    resp.op = "company_expenses" =>
        \A k \in 1..Len(resp.body.months) :
            resp.body.months[k].expense =
                SumMoney([i \in 1..Len(grants) |->
                    ExpenseAt(GrantMonthlyExpenses(grants[i], market, today),
                              resp.body.months[k].month)])

\* the grant is recognised in the current or in future months only
WholePeriodAhead(g, now) ==
    /\ DateLE(FirstOfMonth(now), FirstOfMonth(g.grant_date))
    /\ HasWindow(g) => DateLE(FirstOfMonth(now), FirstOfMonth(g.vesting_start))

\* the Black-Scholes value of one option of the grant
BlackScholesValue(g, mk, now) ==
    LET vest_end == IF g.vesting_end # None THEN g.vesting_end ELSE now IN
    BsCallPrice(mk.current_share_price, PriceOf(g.strike_price),
                Max(DaysDiff(vest_end, now), 0), mk.risk_free_rate, mk.volatility)

\* ------------------------------------------------------------------------
\* C15 (SpecExp): for a grant whose whole recognition period lies in the
\* current or future months, the total expense recognised is
\* BlackScholes * (iso + nqo) + FMV * rsu + FMV * (common + preferred).
C15_TotalFairValue ==
    resp.op = "grant_expenses" =>
        LET g == grants[resp.body.grant_id] IN
        WholePeriodAhead(g, today) =>
            resp.body.total_expense_fair_value =
                MoneyAdd(MoneyAdd(Times(g.iso_shares + g.nqo_shares,
                                        BlackScholesValue(g, market, today)),
                                  Times(g.rsu_shares, Num(market.current_share_price))),
                         Times(g.common_shares + g.preferred_shares,
                               Num(market.current_share_price)))

\* k * amount
MoneyScale(k, a) == Money(k * a.cash, [t \in DOMAIN a.terms |-> k * a.terms[t]])

\* ------------------------------------------------------------------------
\* C16 (SpecExp): for a non-preferred grant with vesting_end > vesting_start,
\* whatever its frequency, every calendar month from the month of
\* vesting_start through the month of vesting_end that is not before the
\* current month receives the same amount total / months, months being the
\* whole-month count of the window.
C16_StraightLine ==
    resp.op = "grant_expenses" =>
        LET g == grants[resp.body.grant_id] IN
        (g.preferred_shares = 0 /\ HasWindow(g)
           /\ DateLT(g.vesting_start, g.vesting_end)) =>
            LET ms    == MonthIter(FirstOfMonth(g.vesting_start), g.vesting_end)
                total == FallbackTotal(g, market, today)
                count == MonthsBetween(g.vesting_start, g.vesting_end)
            IN  \A i \in 1..Len(ms) :
                    DateLE(FirstOfMonth(today), ms[i]) =>
                        \E months \in {count, count + 1} :
                            MoneyScale(months, ExpenseAt(resp.body, ms[i])) = total

\* ------------------------------------------------------------------------
\* C17 (SpecExp): a grant without a vesting window and without options has
\* its full expense posted to the month of grant_date iff that month is not
\* before the current month, and nothing otherwise; no month before the
\* current month ever receives an amount.  The full expense is the grant's
\* share count at the per-share value the expense computation uses.
C17_ImmediateRecognition ==
    /\ resp.op \in {"grant_expenses", "company_expenses"} =>
          \A k \in 1..Len(resp.body.months) :
              DateLE(FirstOfMonth(today), resp.body.months[k].month)
    /\ resp.op = "grant_expenses" =>
          LET g     == grants[resp.body.grant_id]
              gm    == FirstOfMonth(g.grant_date)
              full  == FallbackTotal(g, market, today)
              posts == GrantPostings(g, market, today, FirstOfMonth(today))
          IN  /\ \A k \in 1..Len(posts) : DateLE(FirstOfMonth(today), posts[k].month)
              /\ (~HasWindow(g) /\ g.iso_shares + g.nqo_shares = 0) =>
                    IF DateLE(FirstOfMonth(today), gm)
                    THEN /\ \A k \in 1..Len(posts) : posts[k].month = gm
                         /\ MonthlyOf(posts, gm) = full
                         /\ resp.body.total_expense_fair_value = full
                    ELSE /\ posts = << >>
                         /\ resp.body.total_expense_fair_value = ZeroMoney
                         /\ \A k \in 1..Len(resp.body.months) :
                                resp.body.months[k].expense = ZeroMoney

C17_Witness ==
    /\ resp.op = "grant_expenses"
    /\ grants[resp.body.grant_id].rsu_shares > 0
    /\ ~HasWindow(grants[resp.body.grant_id])
    /\ DateLE(FirstOfMonth(today), FirstOfMonth(grants[resp.body.grant_id].grant_date))
    /\ ExpenseAt(resp.body, FirstOfMonth(grants[resp.body.grant_id].grant_date)).cash > 0

\* ------------------------------------------------------------------------
\* C18 (SpecExp): for a grant with one bucket, vested_value is vested_shares
\* times the bucket's price: strike_price for ISO/NQO, the company's FMV for
\* RSU, purchase_price for common/preferred; it is 0 whenever num_shares or
\* the vested count is 0.
C18_VestedValue ==
    resp.op = "grant_detail" =>
        LET g     == grants[resp.body.grant_id]
            price == IF g.iso_shares + g.nqo_shares > 0 THEN PriceOf(g.strike_price)
                     ELSE IF g.rsu_shares > 0 THEN market.current_share_price
                     ELSE PriceOf(g.purchase_price)
        IN  /\ resp.body.vested_value = VestedShares(g, today) * price
            /\ (g.num_shares = 0 \/ VestedShares(g, today) = 0) =>
                  resp.body.vested_value = 0

C18_Witness ==
    /\ resp.op = "grant_detail"
    /\ grants[resp.body.grant_id].rsu_shares > 0
    /\ resp.vested_shares > 0
    /\ resp.vested_shares < grants[resp.body.grant_id].num_shares
    /\ resp.body.vested_value = resp.vested_shares * 12

\* the four status classes; the partially-vested label differs by view
StatusClass(label) ==
    IF label \in {"Vesting", "Partially Vested"} THEN "partial" ELSE label

ExpectedStatus(g, now, partial) ==
    IF g.preferred_shares > 0 THEN "Preferred Shares (Immediate Vest)"
    ELSE IF VestedShares(g, now) = 0 THEN "Not Vested"
    ELSE IF VestedShares(g, now) >= g.num_shares /\ g.num_shares > 0
    THEN "Fully Vested"
    ELSE partial

\* ------------------------------------------------------------------------
\* C19 (SpecVest): the vesting status is the preferred label if
\* preferred_shares > 0, else "Not Vested" if nothing is vested, else
\* "Fully Vested" if vested >= num_shares > 0, else the partially-vested
\* label ("Vesting" in the cap table, "Partially Vested" in the grant
\* detail); both views put a grant in the same class.
C19_StatusClasses ==
    /\ resp.op = "cap_table" =>
          \A i \in 1..Len(resp.rows) :
              /\ resp.rows[i].vesting_status =
                     ExpectedStatus(grants[i], today, "Vesting")
              /\ StatusClass(resp.rows[i].vesting_status) =
                     StatusClass(DetailVestingStatus(grants[i], today))
    /\ resp.op = "grant_detail" =>
          /\ resp.vesting_status =
                 ExpectedStatus(grants[resp.body.grant_id], today, "Partially Vested")
          /\ StatusClass(resp.vesting_status) =
                 StatusClass(GetVestingStatus(grants[resp.body.grant_id], today))

C19_Witness ==
    /\ resp.op = "grant_detail"
    /\ resp.vesting_status = "Fully Vested"
    /\ GetVestingStatus(grants[resp.body.grant_id], today) = "Fully Vested"

\* ------------------------------------------------------------------------
\* SpecSeries: series and stock classes written in any order
\* ------------------------------------------------------------------------

InitSeries ==
    /\ today = ClockStart
    /\ authorized = 1150
    /\ market = DefaultMarket
    /\ invites = << >>
    /\ users = Users0
    /\ profiles = Profiles0
    /\ series = << >>
    /\ classes = {}
    /\ grants = << >>
    /\ req = Idle
    /\ resp = NoResponse

NextSeries ==
    \/ \E st \in ShareTypeInputs : SeriesCreate(st)
    \/ \E sid \in SeriesIds, st \in ShareTypeInputs : SeriesUpdate(sid, st)
    \/ \E name \in ClassNames, sid \in SeriesIds, total \in ClassTotals :
          StockClassCreate(name, sid, total)
    \/ \E name \in ClassNames, sid \in SeriesIds, total \in ClassTotals :
          StockClassUpdate(name, sid, total)

SpecSeries == InitSeries /\ [][NextSeries]_vars

\* ------------------------------------------------------------------------
\* C20 (SpecSeries): after any sequence of series create/update and class
\* create/update requests, each stock class's share_type equals the
\* share_type of its series.
C20_ShareTypeMirrorsSeries ==
    \A c \in classes :
        /\ c.series \in DOMAIN series
        /\ c.share_type = series[c.series]

\* ------------------------------------------------------------------------
\* SpecScope: the employers of two companies send requests that name the
\* rows of company HomeCompany and the employees of both
\* ------------------------------------------------------------------------

Employers == {"M1", "M2"}

Holders == {"E1", "X1"}

ScopeInputs ==
    { [GrantOf(k, 150, c, StrikeFor(k), PurchaseFor(k), None, None, "MONTHLY")
         EXCEPT !.user = u] :
        k \in {"rsu", "preferred"}, c \in ClassNames, u \in Holders }

InitScope ==
    /\ today = ClockStart
    /\ authorized = 0
    /\ market = DefaultMarket
    /\ invites = << >>
    /\ users = Users0
    /\ profiles = Profiles0
    /\ series = Series0
    /\ classes = {}
    /\ grants = << >>
    /\ req = Idle
    /\ resp = NoResponse

NextScope ==
    \/ \E c \in Employers, name \in ClassNames, sid \in SeriesIds :
          StockClassCreateBy(c, name, sid, 1000)
    \/ \E c \in Employers, name \in ClassNames, sid \in SeriesIds :
          StockClassUpdateBy(c, name, sid, 1000)
    \/ \E c \in Employers, sid \in SeriesIds, st \in SHARE_TYPES :
          SeriesUpdateBy(c, sid, st)
    \/ \E c \in Employers, d \in ScopeInputs : GrantCreateBy(c, d)
    \/ \E c \in Employers, u \in Holders, i \in 1..MaxScopeGrants :
          GrantDeleteBy(c, u, i)
    \/ \E c \in Employers, u \in Holders : GrantDeleteAllBy(c, u)
    \/ \E c \in Employers, u \in Holders, i \in 1..MaxScopeGrants :
          GetScheduleBy(c, u, i)

SpecScope == InitScope /\ [][NextScope]_vars

\* a refusal that changes no stored row
RefusedUnchanged ==
    /\ resp'.status \in {400, 404}
    /\ UNCHANGED <<series, classes, grants>>

\* ------------------------------------------------------------------------
\* C21 (SpecScope): a request by an employer of one company that names a
\* grant, stock class, series or employee of another company is answered
\* not found / invalid and changes no state; no stored grant has an
\* employee of a company other than its stock class's company.
C21_CompanyScoping ==
    [][ /\ \A c \in Employers, d \in ScopeInputs :
              GrantCreateBy(c, d)
              /\ (CompanyOf(c) # HomeCompany \/ CompanyOf(d.user) # CompanyOf(c))
              => RefusedUnchanged
        /\ \A c \in Employers, u \in Holders, i \in 1..MaxScopeGrants :
              (GrantDeleteBy(c, u, i) \/ GetScheduleBy(c, u, i)
               \/ GrantDeleteAllBy(c, u))
              /\ CompanyOf(u) # CompanyOf(c)
              => RefusedUnchanged
        /\ \A name \in ClassNames, sid \in SeriesIds, st \in SHARE_TYPES :
              (StockClassCreateBy("M2", name, sid, 1000)
               \/ StockClassUpdateBy("M2", name, sid, 1000)
               \/ SeriesUpdateBy("M2", sid, st))
              => RefusedUnchanged
        /\ \A i \in 1..Len(grants') : CompanyOf(grants'[i].user) = HomeCompany
      ]_vars

\* ------------------------------------------------------------------------
\* SpecInvite: the employer invites, anyone registers, one request at a time
\* ------------------------------------------------------------------------

Usernames == {"u1", "u2", "M1"}

UniqueIds == {"id1", "id2"}

PasswordLens == {3, 8}

RegInputs ==
    { RegData(n, u, l) : n \in Usernames, u \in UniqueIds, l \in PasswordLens }

\* the tokens requests carry: those of the invites and one never issued
Tokens == 1..(MaxInvites + 1)

InitInvite ==
    /\ today = ClockStart
    /\ authorized = 0
    /\ market = DefaultMarket
    /\ invites = << >>
    /\ users = Users0
    /\ profiles = Profiles0
    /\ series = Series0
    /\ classes = {}
    /\ grants = << >>
    /\ req = Idle
    /\ resp = NoResponse

NextInvite ==
    \/ InviteCreate("M1")
    \/ \E t \in Tokens : InviteValidate(t)
    \/ \E t \in Tokens, d \in RegInputs : Register(t, d)

SpecInvite == InitInvite /\ [][NextInvite]_vars

\* ------------------------------------------------------------------------
\* C22 (SpecInvite): a registration succeeds only with the token of an
\* existing invite with is_used = false; on success an employee profile bound
\* to the invite's company and employer exists and is_used is true; a used or
\* unknown token is answered 404 and creates no user or profile; is_used
\* never returns to false.
C22_InviteSingleUse ==
    [][ /\ \A t \in Tokens, d \in RegInputs :
              Register(t, d) =>
                 LET usable == t \in 1..Len(invites) /\ ~invites[t].is_used IN
                 /\ resp'.status = 201 =>
                       /\ usable
                       /\ invites'[t].is_used
                       /\ Profile(d.username, d.unique_id, "employee",
                                  invites[t].company, invites[t].employer)
                            \in profiles' \ profiles
                       /\ d.username \in users' \ users
                 /\ ~usable =>
                       /\ resp'.status = 404
                       /\ UNCHANGED <<invites, users, profiles>>
        /\ \A t \in 1..Len(invites) : invites[t].is_used => invites'[t].is_used
      ]_vars

\* a used invite was presented again and refused
C22_Witness ==
    /\ resp.op = "register"
    /\ resp.status = 404
    /\ \E t \in 1..Len(invites) : invites[t].is_used
    /\ \E p \in profiles : p.role = "employee"

\* ------------------------------------------------------------------------
\* SpecInviteRace: concurrent registrations
\* ------------------------------------------------------------------------

RaceUsernames == {"u1", "u2"}

RaceRegInputs == { RegData(n, u, 8) : n \in RaceUsernames, u \in UniqueIds }

NextInviteRace ==
    \/ InviteCreate("M1")
    \/ \E w \in Workers, t \in Tokens, d \in RaceRegInputs : BeginRegister(w, t, d)
    \/ \E w \in Workers : FinishRegister(w)

SpecInviteRace == InitInvite /\ [][NextInviteRace]_vars

\* ------------------------------------------------------------------------
\* C29 (SpecInviteRace): whatever the interleaving of registrations that
\* carry the same unused token, at most one of them creates an employee: the
\* employees registered never outnumber the invites consumed.
C29_OneRegistrationPerInvite ==
    Cardinality({p \in profiles : p.role = "employee"})
        <= Cardinality({t \in 1..Len(invites) : invites[t].is_used})

\* ------------------------------------------------------------------------
\* C23 (Spec): after any sequence of stock-class create/update and grant
\* create/delete requests, every stock class has shares_allocated <=
\* total_class_shares, also after the total of a class with grants is updated.
C23_AllocatedWithinClass ==
    \A c \in classes : SharesAllocated(grants, c.name) <= c.total_class_shares

\* vesting_start + cliff_months
CliffStart(g) == AddMonths(g.vesting_start, g.cliff_months)

\* the vested count with the elapsed units taken from the cliff-adjusted
\* start up to min(on_date, vesting_end)
CliffVested(g, on_date) ==
    IF DateLT(on_date, CliffStart(g)) THEN 0
    ELSE Min(FloatTrunc(FloatMulInt(
                 UnitsBetween(CliffStart(g), DateMin(on_date, g.vesting_end),
                              g.vesting_frequency),
                 FloatDiv(g.num_shares, TotalUnits(g)))),
             g.num_shares)

\* ------------------------------------------------------------------------
\* C24 (SpecSched): for a non-preferred grant with stored cliff_months > 0
\* the vested count is 0 on every as-of date before vesting_start +
\* cliff_months, and the elapsed units are counted from that cliff-adjusted
\* start, not from vesting_start.
C24_CliffDelaysVesting ==
    \A i \in 1..Len(grants) :
        LET g == grants[i] IN
        (g.preferred_shares = 0 /\ HasWindow(g) /\ g.cliff_months > 0) =>
            \A d \in {g.vesting_start, today} :
                /\ DateLT(d, CliffStart(g)) => VestedShares(g, d) = 0
                /\ VestedShares(g, d) = CliffVested(g, d)

\* the vesting window spans fewer than 31 days
ShortWindow(g) ==
    HasWindow(g) /\ DaysDiff(g.vesting_end, g.vesting_start) < 31

\* the same grant declared with another frequency
WithFrequency(g, f) == [g EXCEPT !.vesting_frequency = f]

\* ------------------------------------------------------------------------
\* C25 (SpecSched): when the vesting window spans fewer than 31 days the
\* declared frequency does not matter: the vested count on any day and the
\* schedule breakdown returned are those of the same grant under every other
\* frequency, and the unit count is never 0.
C25_ShortWindowDaily ==
    resp.op = "schedule" =>
        LET g == grants[1] IN
        (g.preferred_shares = 0 /\ ShortWindow(g)) =>
            /\ TotalUnits(g) # 0
            /\ Len(resp.schedule) # 0
            /\ \A f \in VESTING_FREQUENCIES :
                  /\ VestedShares(WithFrequency(g, f), today) = VestedShares(g, today)
                  /\ VestingScheduleBreakdown(WithFrequency(g, f)) = resp.schedule

\* ------------------------------------------------------------------------
\* SpecResave: one grant, created on ClockStart, re-saved and read through
\* every view as the months pass
\* ------------------------------------------------------------------------

NextResave ==
    \/ Tick(SchedStep, SchedStep * SchedTicks)
    \/ SaveGrant(1)
    \/ GetSchedule(1)
    \/ GetGrantDetail(1)
    \/ GetCapTable
    \/ GetGrantExpenses(1)

SpecResave == InitSched /\ [][NextResave]_vars

RECURSIVE FullMonthsFrom(_, _, _)
\* the greatest k' >= k with start + k' months <= end
FullMonthsFrom(start, end, k) ==
    IF DateLE(AddMonths(start, k + 1), end)
    THEN FullMonthsFrom(start, end, k + 1) ELSE k

\* ------------------------------------------------------------------------
\* C26 (SpecResave): a save of a grant with a vesting_start at clock time t
\* stores cliff_months = full months from vesting_start to t if t >
\* vesting_start, else 0, whatever was stored before; no other step (clock
\* advance, cap table, detail, schedule, expenses) changes the stored grant.
C26_CliffOnSaveOnly ==
    [][ /\ SaveGrant(1) =>
              (grants[1].vesting_start # None =>
                  grants'[1].cliff_months =
                      IF DateLT(grants[1].vesting_start, today)
                      THEN FullMonthsFrom(grants[1].vesting_start, today, 0)
                      ELSE 0)
        /\ ~SaveGrant(1) => grants' = grants
      ]_vars

\* a re-save replaced a positive cliff_months by a larger one
C26_Witness ==
    /\ resp.op = "grant_update"
    /\ grants[1].vesting_start = <<2024, 1, 1>>
    /\ today = <<2024, 5, 2>>
    /\ grants[1].cliff_months = 4

\* the total_vested of the schedule entries dated on or before d
ScheduleVestedBy(sched, d) ==
    SumSeq([i \in 1..Len(sched) |->
              IF DateLE(sched[i].date, d) THEN sched[i].total_vested ELSE 0])

\* ------------------------------------------------------------------------
\* C27 (SpecSched): for a non-preferred grant with a vesting window and
\* cliff_months = 0, on every as-of date the vested count equals the sum of
\* total_vested over the schedule entries dated on or before that date.
C27_VestedMatchesSchedule ==
    resp.op = "schedule" =>
        LET g == grants[1] IN
        (g.preferred_shares = 0 /\ HasWindow(g) /\ g.cliff_months = 0) =>
            VestedShares(g, today) = ScheduleVestedBy(resp.schedule, today)

\* ------------------------------------------------------------------------
\* C28 (SpecResave): as the clock advances and the grant is re-saved, the
\* vesting status of a non-preferred grant with a valid window only moves
\* forward: once Vesting it is never again Not Vested, once Fully Vested it
\* stays Fully Vested.
C28_StatusForward ==
    [][ LET g      == grants[1]
            before == GetVestingStatus(g, today)
            after  == GetVestingStatus(grants'[1], today')
        IN  ( /\ g.preferred_shares = 0
              /\ HasWindow(g)
              /\ DateLE(g.vesting_start, g.vesting_end) ) =>
                /\ before = "Vesting" => after # "Not Vested"
                /\ before = "Fully Vested" => after = "Fully Vested"
      ]_vars

\* a re-saved grant reported fully vested
C28_Witness ==
    /\ resp.op = "cap_table"
    /\ grants[1].preferred_shares = 0
    /\ grants[1].cliff_months > 0
    /\ resp.rows[1].vesting_status = "Fully Vested"

\* every posting lies in the reported window of the body
PostingsInWindow(posts, body) ==
    \A k \in 1..Len(posts) :
        \/ IsZeroMoney(posts[k].amount)
        \/ DateLE(body.start_month, posts[k].month)
           /\ DateLE(posts[k].month, body.end_month)

\* ------------------------------------------------------------------------
\* C30 (SpecExp): in the per-grant and the company-wide monthly expenses,
\* every amount posted to a month falls in a month of the reported window
\* [start_month, end_month], also for grants with only one of vesting_start
\* and vesting_end; hence grand_total_within_window equals
\* total_expense_fair_value.
C30_PostingsInWindow ==
    /\ resp.op = "grant_expenses" =>
          /\ PostingsInWindow(GrantPostings(grants[resp.body.grant_id], market,
                                            today, FirstOfMonth(today)),
                              resp.body)
          /\ resp.body.grand_total_within_window
                = resp.body.total_expense_fair_value
    /\ resp.op = "company_expenses" =>
          /\ PostingsInWindow(
                 ConcatPostings(SelectSeq(grants,
                                          LAMBDA g : UserRole(g.user) = "employee"),
                                market, today, FirstOfMonth(today)),
                 resp.body)
          /\ resp.body.grand_total_within_window
                = resp.body.total_expense_fair_value

====
